---------------------------- MODULE Spec2Model ----------------------------
(***************************************************************************)
(* A model of go-stickyfields' analyzer (internal/sf/analyzer.go): the     *)
(* candidate type extractor, the converter classifier, the converter       *)
(* validator and the Run pass over files and function declarations.        *)
(*                                                                         *)
(* Identifiers (type, field, variable and method names) are sequences of   *)
(* one-character strings, so that lower-casing, substring search, the      *)
(* exported test and concatenation are computed character by character.    *)
(***************************************************************************)
EXTENDS Integers, Sequences, FiniteSets, TLC

VARIABLES
    pc,                     \* position of the unit or of the pass
    arg,                    \* the argument of the function under examination
    ret,                    \* what that function returned
    includeMethods,         \* the package-level configuration variable
    numFiles,               \* len(pass.Files)
    fileIdx,                \* number of files the range loop has taken
    file,                   \* the file the loop is on: filename and declarations
    declIdx,                \* number of declarations ast.Inspect has visited
    fileContainsWarnings,   \* Run's local of that name
    warningsTotal,          \* Run's three summary counters
    filesTotal,
    filesWarned,
    reports,                \* the diagnostics handed to pass.Report, in order
    visited,                \* history: what the loop did with each file/declaration
    stdout,                 \* the summary line printed at the end
    result                  \* what Run returned

vars == <<pc, arg, ret, includeMethods, numFiles, fileIdx, file, declIdx,
          fileContainsWarnings, warningsTotal, filesTotal, filesWarned,
          reports, visited, stdout, result>>

runVars == <<numFiles, fileIdx, file, declIdx, fileContainsWarnings,
             warningsTotal, filesTotal, filesWarned, reports, visited,
             stdout, result>>

---------------------------------------------------------------------------
(* Bounds of the model.                                                    *)

MaxWrap == 2        \* type constructors stacked on a base type (extractor)
MaxParams == 2      \* parameters of a signature (classifier)
MaxResults == 2     \* results of a signature (classifier)
MaxFields == 3      \* groups of an AST field list (findCandidateParam)
MaxNames == 2       \* names sharing one type in a group
MaxStmts == 2       \* statements of a function body (validator)
MaxFiles == 2       \* files of a pass
MaxDecls == 2       \* function declarations of a file

---------------------------------------------------------------------------
(* Strings.                                                                *)

UpperChars == <<"A","B","C","D","E","F","G","H","I","J","K","L","M",
                "N","O","P","Q","R","S","T","U","V","W","X","Y","Z">>
LowerChars == <<"a","b","c","d","e","f","g","h","i","j","k","l","m",
                "n","o","p","q","r","s","t","u","v","w","x","y","z">>

IsUpper(c) == \E i \in DOMAIN UpperChars : UpperChars[i] = c

ToLowerChar(c) ==
    IF IsUpper(c)
    THEN LowerChars[CHOOSE i \in DOMAIN UpperChars : UpperChars[i] = c]
    ELSE c

\* strings.ToLower
ToLower(s) == [i \in DOMAIN s |-> ToLowerChar(s[i])]

\* strings.Contains(s, substr)
Contains(s, substr) ==
    \E i \in 0..(Len(s) - Len(substr)) :
        SubSeq(s, i + 1, i + Len(substr)) = substr

\* strings.HasSuffix(s, suffix)
HasSuffix(s, suffix) ==
    /\ Len(s) >= Len(suffix)
    /\ SubSeq(s, Len(s) - Len(suffix) + 1, Len(s)) = suffix

\* token.IsExported, behind types.Var.Exported
Exported(name) == Len(name) > 0 /\ IsUpper(name[1])

---------------------------------------------------------------------------
(* go/types types, as far as the analyzer looks into them.                 *)

BasicT(n) == [kind |-> "Basic", name |-> n]
StructT(fs) == [kind |-> "Struct", fields |-> fs]
NamedT(n, u) == [kind |-> "Named", name |-> n, underlying |-> u]
AliasT(n, t) == [kind |-> "Alias", name |-> n, actual |-> t]
PointerT(t) == [kind |-> "Pointer", elem |-> t]
SliceT(t) == [kind |-> "Slice", elem |-> t]
ArrayT(t) == [kind |-> "Array", elem |-> t]
MapT(k, t) == [kind |-> "Map", key |-> k, elem |-> t]

IntT == BasicT(<<"i","n","t">>)
StringT == BasicT(<<"s","t","r","i","n","g">>)

ContainerNone == "none"
ContainerPointer == "pointer"
ContainerSlice == "slice"
ContainerMap == "map"

\* candidate{}: the zero value
ZeroCandidate == [name |-> <<>>, containerType |-> "", structType |-> <<>>]

extractCandidateType_NestedPointers(t) ==
    LET isContainer == t.kind \in {"Slice", "Array", "Map"}
        ct0 == CASE t.kind \in {"Slice", "Array"} -> ContainerSlice
                 [] t.kind = "Map" -> ContainerMap
                 [] OTHER -> ContainerNone
        t1 == IF isContainer THEN t.elem ELSE t
        isPtr == t1.kind = "Pointer"
        ct == IF isPtr /\ ct0 = ContainerNone THEN ContainerPointer ELSE ct0
        t2 == IF isPtr THEN t1.elem ELSE t1
        t3 == IF t2.kind = "Pointer" THEN t2.elem ELSE t2
    IN  IF t3.kind # "Named" THEN [cand |-> ZeroCandidate, ok |-> FALSE]
        ELSE IF t3.underlying.kind # "Struct"
             THEN [cand |-> ZeroCandidate, ok |-> FALSE]
        ELSE [cand |-> [name |-> t3.name, containerType |-> ct,
                        structType |-> t3.underlying.fields],
              ok |-> TRUE]

extractCandidateType(t) ==
    LET isContainer == t.kind \in {"Slice", "Array", "Map"}
        ct0 == CASE t.kind \in {"Slice", "Array"} -> ContainerSlice
                 [] t.kind = "Map" -> ContainerMap
                 [] OTHER -> ContainerNone
        t1 == IF isContainer THEN t.elem ELSE t
        isPtr == t1.kind = "Pointer"
        ct == IF isPtr /\ ct0 = ContainerNone THEN ContainerPointer ELSE ct0
        t2 == IF isPtr THEN t1.elem ELSE t1
    IN  IF t2.kind # "Named" THEN [cand |-> ZeroCandidate, ok |-> FALSE]
        ELSE IF t2.underlying.kind # "Struct"
             THEN [cand |-> ZeroCandidate, ok |-> FALSE]
        ELSE [cand |-> [name |-> t2.name, containerType |-> ct,
                        structType |-> t2.underlying.fields],
              ok |-> TRUE]

---------------------------------------------------------------------------
(* The types the extractor is examined on: every stack of at most MaxWrap  *)
(* constructors over a base type.                                          *)

FieldA == <<"A">>
FieldB == <<"B">>
FieldId == <<"i","d">>

OrderStruct == NamedT(<<"O","r","d","e","r">>, StructT(<<FieldA, FieldId, FieldB>>))
UnitStruct == NamedT(<<"U","n","i","t">>, StructT(<<>>))

BaseTypes ==
    { OrderStruct, UnitStruct,
      StringT,
      StructT(<<FieldA>>),
      NamedT(<<"I","D">>, IntT),
      NamedT(<<"O","r","d","e","r","s">>, SliceT(OrderStruct)),
      NamedT(<<"R","e","f">>, PointerT(OrderStruct)),
      AliasT(<<"O","r","d">>, OrderStruct) }

Wrappings(S) ==
    {PointerT(t) : t \in S} \cup {SliceT(t) : t \in S}
        \cup {ArrayT(t) : t \in S} \cup {MapT(StringT, t) : t \in S}

RECURSIVE TypesUpTo(_)
TypesUpTo(d) ==
    IF d = 0 THEN BaseTypes
    ELSE LET S == TypesUpTo(d - 1) IN S \cup Wrappings(S)

TypeUniverse == TypesUpTo(MaxWrap)

---------------------------------------------------------------------------
(* Values of the variables a specification does not use.                   *)

NoFile == [name |-> <<>>, decls |-> 0]
NoValue == [none |-> TRUE]

RunIdle ==
    /\ numFiles = 0
    /\ fileIdx = 0
    /\ file = NoFile
    /\ declIdx = 0
    /\ fileContainsWarnings = FALSE
    /\ warningsTotal = 0
    /\ filesTotal = 0
    /\ filesWarned = 0
    /\ reports = <<>>
    /\ visited = <<>>
    /\ stdout = <<>>
    /\ result = NoValue

---------------------------------------------------------------------------
(* extractCandidateType on every type of the universe.                     *)

InitExtract ==
    /\ pc = "call"
    /\ arg \in TypeUniverse
    /\ ret = NoValue
    /\ includeMethods = FALSE
    /\ RunIdle

CallExtract ==
    /\ pc = "call"
    /\ ret' = extractCandidateType(arg)
    /\ pc' = "return"
    /\ UNCHANGED <<arg, includeMethods, runVars>>

NextExtract == CallExtract

SpecExtract == InitExtract /\ [][NextExtract]_vars

\* The claim's form C(P(N)): N a named record, P nothing or one pointer,
\* C nothing, one slice/array or one map.
IsNamedRecord(t) == t.kind = "Named" /\ t.underlying.kind = "Struct"

PointerForms(n) == {n, PointerT(n)}

ContainerForms(p) ==
    {p, SliceT(p), ArrayT(p)} \cup {MapT(k, p) : k \in {StringT, IntT}}

FormKind(t) ==
    CASE t.kind \in {"Slice", "Array"} -> ContainerSlice
      [] t.kind = "Map" -> ContainerMap
      [] t.kind = "Pointer" -> ContainerPointer
      [] OTHER -> ContainerNone

IsCandidateForm(t) ==
    \E n \in {b \in BaseTypes : IsNamedRecord(b)} :
        \E p \in PointerForms(n) : t \in ContainerForms(p)

FormRecord(t) ==
    CHOOSE n \in {b \in BaseTypes : IsNamedRecord(b)} :
        \E p \in PointerForms(n) : t \in ContainerForms(p)

\* C5: extractCandidateType finds a candidate exactly for the types
\* C(P(N)) with N a named record, P at most one pointer and C at most one
\* slice/array/map; the kind is Slice or Map when C is present, Pointer when
\* only P is, None otherwise; the candidate carries N's name and record.
C5_ExtractExactlyCandidateForms ==
    pc = "return" =>
        /\ ret.ok = IsCandidateForm(arg)
        /\ ret.ok =>
            /\ ret.cand.containerType = FormKind(arg)
            /\ ret.cand.name = FormRecord(arg).name
            /\ ret.cand.structType = FormRecord(arg).underlying.fields
        /\ ~ret.ok => ret.cand = ZeroCandidate

\* A slice of pointers to a record was extracted as a Slice candidate, and
\* nested containers and pointers were rejected.
C5_Witness ==
    /\ pc = "return"
    /\ arg = SliceT(PointerT(OrderStruct))
    /\ ret.ok
    /\ ret.cand.containerType = ContainerSlice
    /\ ~extractCandidateType(PointerT(PointerT(OrderStruct))).ok
    /\ ~extractCandidateType(SliceT(SliceT(OrderStruct))).ok

---------------------------------------------------------------------------
(* Function declarations: the AST's field lists and the signature the type *)
(* checker resolves from them.                                             *)

\* ast.Field: the names sharing one type (none for an unnamed parameter)
Field(names, t) == [names |-> names, type |-> t]

\* *ast.FieldList; fn.Type.Results is nil when nothing is returned
NilFieldList == [nil |-> TRUE, List |-> <<>>]
FieldList(l) == [nil |-> FALSE, List |-> l]

RECURSIVE TupleOf(_)
\* types.Tuple of a field list: one variable per name, or one unnamed
\* variable for a field without names
TupleOf(l) ==
    IF l = <<>> THEN <<>>
    ELSE LET f == Head(l)
         IN (IF f.names = <<>>
             THEN <<[name |-> <<>>, type |-> f.type]>>
             ELSE [i \in DOMAIN f.names |-> [name |-> f.names[i], type |-> f.type]])
            \o TupleOf(Tail(l))

NotFoundParam == [cand |-> ZeroCandidate, varName |-> <<>>, found |-> FALSE]

RECURSIVE findCandidateInField(_, _, _, _, _)
\* the inner loop over the n parameters a field declares, from i on
findCandidateInField(names, n, i, paramIndex, sigParams) ==
    IF i >= n \/ paramIndex >= Len(sigParams)
    THEN [hit |-> NotFoundParam, paramIndex |-> paramIndex]
    ELSE LET e == extractCandidateType(sigParams[paramIndex + 1].type)
         IN IF e.ok
            THEN [hit |-> [cand |-> e.cand,
                           varName |-> IF Len(names) > 0 THEN names[i + 1] ELSE <<>>,
                           found |-> TRUE],
                  paramIndex |-> paramIndex]
            ELSE findCandidateInField(names, n, i + 1, paramIndex + 1, sigParams)

RECURSIVE findCandidateFrom(_, _, _, _)
\* the outer loop over fieldList.List, from field k on
findCandidateFrom(list, k, paramIndex, sigParams) ==
    IF k > Len(list) THEN NotFoundParam
    ELSE LET names == list[k].names
             n == IF Len(names) > 0 THEN Len(names) ELSE 1
             r == findCandidateInField(names, n, 0, paramIndex, sigParams)
         IN IF r.hit.found THEN r.hit
            ELSE findCandidateFrom(list, k + 1, r.paramIndex + (n - 1), sigParams)

findCandidateParam(fieldList, sigParams) ==
    IF fieldList.nil THEN NotFoundParam
    ELSE findCandidateFrom(fieldList.List, 1, 0, sigParams)

---------------------------------------------------------------------------
(* findCandidateParam on every grouping of at most MaxFields groups of at  *)
(* most MaxNames names; a list is all named or all unnamed, as Go requires.*)

TargetStruct == NamedT(<<"T","a","r","g","e","t">>, StructT(<<<<"X">>, <<"Y">>>>))

FindTypes == {IntT, OrderStruct, PointerT(TargetStruct)}

\* the name declared at position i of a list
ParamName(i) == <<LowerChars[i]>>

RECURSIVE NamedList(_, _)
\* the field list of a sequence of <<count, type>> groups, named by position
NamedList(groups, from) ==
    IF groups = <<>> THEN <<>>
    ELSE LET g == Head(groups)
         IN <<Field([i \in 1..g[1] |-> ParamName(from + i)], g[2])>>
            \o NamedList(Tail(groups), from + g[1])

UnnamedList(types) == [i \in DOMAIN types |-> Field(<<>>, types[i])]

FieldListsOver(T, maxFields, maxNames) ==
    {NilFieldList}
    \cup UNION { { FieldList(NamedList(g, 0)) :
                     g \in [1..k -> (1..maxNames) \X T] } : k \in 0..maxFields }
    \cup UNION { { FieldList(UnnamedList(ts)) : ts \in [1..k -> T] } :
                     k \in 1..maxFields }

InitFind ==
    /\ pc = "call"
    /\ \E fl \in FieldListsOver(FindTypes, MaxFields, MaxNames) :
          arg = [fieldList |-> fl, sigParams |-> TupleOf(fl.List)]
    /\ ret = NoValue
    /\ includeMethods = FALSE
    /\ RunIdle

CallFind ==
    /\ pc = "call"
    /\ ret' = findCandidateParam(arg.fieldList, arg.sigParams)
    /\ pc' = "return"
    /\ UNCHANGED <<arg, includeMethods, runVars>>

NextFind == CallFind

SpecFind == InitFind /\ [][NextFind]_vars

CandidateIndexes(tuple) ==
    {i \in DOMAIN tuple : extractCandidateType(tuple[i].type).ok}

FirstCandidateIndex(tuple) ==
    CHOOSE i \in CandidateIndexes(tuple) :
        \A j \in CandidateIndexes(tuple) : i <= j

\* C2: whatever the grouping of names, findCandidateParam finds a
\* parameter exactly when some parameter type is a candidate, and then
\* returns the candidate of the lowest such signature index together with
\* the name declared at that index.
C2_FindsFirstCandidateWithItsName ==
    pc = "return" =>
        /\ ret.found = (CandidateIndexes(arg.sigParams) # {})
        /\ ret.found =>
            LET i == FirstCandidateIndex(arg.sigParams)
            IN /\ ret.cand = extractCandidateType(arg.sigParams[i].type).cand
               /\ ret.varName = arg.sigParams[i].name

---------------------------------------------------------------------------
(* A function declaration: *ast.FuncDecl with the object the type checker  *)
(* recorded for its name in pass.TypesInfo.Defs.                           *)

\* pass.TypesInfo.Defs[fn.Name]: nil, or a function with its signature
NilObj == [kind |-> "nil", Params |-> <<>>, Results |-> <<>>]
FuncObj(params, results) ==
    [kind |-> "func", Params |-> TupleOf(params.List),
     Results |-> TupleOf(results.List)]

FuncDecl(name, recv, params, results, body) ==
    [Name |-> name, Recv |-> recv, Params |-> params, Results |-> results,
     Body |-> body, obj |-> FuncObj(params, results)]

RECURSIVE gatherCandidates(_)
\* the two gathering loops of IsPossibleConverter
gatherCandidates(tuple) ==
    IF tuple = <<>> THEN <<>>
    ELSE LET e == extractCandidateType(Head(tuple).type)
         IN (IF e.ok THEN <<e.cand>> ELSE <<>>) \o gatherCandidates(Tail(tuple))

containerCompatible_SameKindOnly(inCand, outCand) ==
    inCand.containerType = outCand.containerType

containerCompatible_SelfCompare(inCand, outCand) ==
    IF inCand.containerType = ContainerSlice \/ inCand.containerType = ContainerMap
    THEN inCand.containerType = inCand.containerType
    ELSE ~(outCand.containerType # ContainerNone
              /\ outCand.containerType # ContainerPointer)

\* the container test of the pair loop: TRUE where the code does not continue
containerCompatible(inCand, outCand) ==
    IF inCand.containerType = ContainerSlice \/ inCand.containerType = ContainerMap
    THEN inCand.containerType = outCand.containerType
    ELSE ~(outCand.containerType # ContainerNone
              /\ outCand.containerType # ContainerPointer)

\* the name test of the pair loop
namesShareSubstring(inCand, outCand) ==
    LET lowerIn == ToLower(inCand.name)
        lowerOut == ToLower(outCand.name)
    IN Contains(lowerOut, lowerIn) \/ Contains(lowerIn, lowerOut)

IsPossibleConverter(fn) ==
    IF ~includeMethods /\ fn.Recv THEN FALSE
    ELSE IF fn.obj.kind = "nil" THEN FALSE
    ELSE IF fn.obj.kind # "func" THEN FALSE
    ELSE IF Len(fn.obj.Params) = 0 \/ Len(fn.obj.Results) = 0 THEN FALSE
    ELSE LET inCandidates == gatherCandidates(fn.obj.Params)
             outCandidates == gatherCandidates(fn.obj.Results)
         IN IF Len(inCandidates) = 0 THEN FALSE
            ELSE IF Len(outCandidates) = 0 THEN FALSE
            ELSE \E i \in DOMAIN inCandidates : \E j \in DOMAIN outCandidates :
                    /\ containerCompatible(inCandidates[i], outCandidates[j])
                    /\ namesShareSubstring(inCandidates[i], outCandidates[j])

---------------------------------------------------------------------------
(* Function bodies and the collectors over them.  A body is the sequence   *)
(* of the selector, call, assignment and composite-literal nodes a walk of *)
(* its syntax tree meets.                                                  *)

\* x.sel read in an expression
ReadStmt(x, sel) ==
    [op |-> "read", x |-> x, sel |-> sel, type |-> <<>>, ptr |-> FALSE, keys |-> <<>>]
\* x.sel(...)
CallStmt(x, sel) ==
    [op |-> "call", x |-> x, sel |-> sel, type |-> <<>>, ptr |-> FALSE, keys |-> <<>>]
\* x.sel = expr
AssignStmt(x, sel) ==
    [op |-> "assign", x |-> x, sel |-> sel, type |-> <<>>, ptr |-> FALSE, keys |-> <<>>]
\* T{k1: .., k2: ..} or &T{..}, assigned to x or (x empty) returned
KeyedLit(x, type, ptr, keys) ==
    [op |-> "keyed", x |-> x, sel |-> <<>>, type |-> type, ptr |-> ptr, keys |-> keys]
\* T{v1, v2} or &T{v1, v2}
PositionalLit(x, type, ptr) ==
    [op |-> "positional", x |-> x, sel |-> <<>>, type |-> type, ptr |-> ptr, keys |-> <<>>]

\* member accesses <variable>.<identifier>: a call's function and an
\* assignment's left side are member accesses too
CollectUsedFields(body, varName) ==
    {body[i].sel : i \in {j \in DOMAIN body :
        body[j].op \in {"read", "call", "assign"} /\ body[j].x = varName}}

\* calls <variable>.<identifier>(...)
CollectUsedMethods(body, varName) ==
    {body[i].sel : i \in {j \in DOMAIN body :
        body[j].op = "call" /\ body[j].x = varName}}

\* named result: the assignments outVar.F = expr; anonymous result: the keys
\* of the keyed constructions of the output type
CollectOutputFields(fn, outVar, outType) ==
    IF outVar # <<>>
    THEN {fn.Body[i].sel : i \in {j \in DOMAIN fn.Body :
            fn.Body[j].op = "assign" /\ fn.Body[j].x = outVar}}
    ELSE UNION { {fn.Body[i].keys[k] : k \in DOMAIN fn.Body[i].keys} :
                    i \in {j \in DOMAIN fn.Body :
                        fn.Body[j].op = "keyed" /\ fn.Body[j].type = outType} }

\* UsageLookup.LookUp
LookUp(usage, name) == name \in usage

GetterName(fieldName) == <<"G", "e", "t">> \o fieldName

RECURSIVE collectMissingFrom(_, _, _, _)
collectMissingFrom(st, i, usedFields, usedMethodsArg) ==
    IF i > Len(st) THEN <<>>
    ELSE LET field == st[i]
             rest == collectMissingFrom(st, i + 1, usedFields, usedMethodsArg)
         IN IF ~Exported(field) THEN rest
            ELSE IF ~LookUp(usedFields, field)
                 THEN IF Len(usedMethodsArg) > 0
                         /\ LookUp(usedMethodsArg[1], GetterName(field))
                      THEN rest
                      ELSE <<field>> \o rest
                 ELSE rest

collectMissingFields_NoGetterExcuse(st, usedFields, usedMethodsArg) ==
    collectMissingFrom(st, 1, usedFields, <<>>)

\* usedMethodsArg is the variadic argument: <<>> or one lookup
collectMissingFields(st, usedFields, usedMethodsArg) ==
    collectMissingFrom(st, 1, usedFields, usedMethodsArg)

Qualify(varName, fields) ==
    [i \in DOMAIN fields |-> varName \o <<".">> \o fields[i]]

ZeroResult ==
    [Valid |-> FALSE, MissingInputFields |-> <<>>, MissingOutputFields |-> <<>>]

ErrNoTypeInfo == "cannot get type info for function"
ErrNoSignature == "function does not have a valid signature"
ErrArity == "function must have at least one parameter and one result"
ErrNoInput == "cannot determine candidate input parameter for function"
ErrNoOutput == "cannot determine candidate output parameter for function"
NoError == "nil"

Failure(msg) ==
    [res |-> ZeroResult, err |-> msg, inCand |-> ZeroCandidate, inVar |-> <<>>,
     outCand |-> ZeroCandidate, outVar |-> <<>>]

\* the located input and output parameters
locateInput(fn) == findCandidateParam(fn.Params, fn.obj.Params)
locateOutput(fn) == findCandidateParam(fn.Results, fn.obj.Results)

\* the fields-written lookup of the output side
outputFieldsUsed_IgnoreResultName(fn, outVar, outCandName) ==
    CollectOutputFields(fn, <<>>, outCandName)

outputFieldsUsed(fn, outVar, outCandName) ==
    CollectOutputFields(fn, outVar, outCandName)

\* missingIn: collected with the getter excuse, then qualified
missingInputFields(fn, inCand, inVar) ==
    LET fieldsUsedModelIn == CollectUsedFields(fn.Body, inVar)
        methodsUsedModelIn == CollectUsedMethods(fn.Body, inVar)
        missingIn == collectMissingFields(inCand.structType, fieldsUsedModelIn,
                                          <<methodsUsedModelIn>>)
    IN Qualify(inVar, missingIn)

missingOutputFields_WithGetterExcuse(fn, outCand, outVar) ==
    LET fieldsUsedModelOut == outputFieldsUsed(fn, outVar, outCand.name)
        missingOut == collectMissingFields(outCand.structType, fieldsUsedModelOut,
                                           <<CollectUsedMethods(fn.Body, outVar)>>)
    IN IF outVar # <<>> THEN Qualify(outVar, missingOut) ELSE missingOut

\* missingOut: collected without methods, qualified when the result is named
missingOutputFields(fn, outCand, outVar) ==
    LET fieldsUsedModelOut == outputFieldsUsed(fn, outVar, outCand.name)
        missingOut == collectMissingFields(outCand.structType, fieldsUsedModelOut, <<>>)
    IN IF outVar # <<>> THEN Qualify(outVar, missingOut) ELSE missingOut

\* ValidateConverter: the result and the error, with the candidates and
\* variable names it located (its locals inCand, inVar, outCand, outVar)
ValidateConverter(fn) ==
    IF fn.obj.kind = "nil" THEN Failure(ErrNoTypeInfo)
    ELSE IF fn.obj.kind # "func" THEN Failure(ErrNoSignature)
    ELSE IF Len(fn.obj.Params) < 1 \/ Len(fn.obj.Results) < 1 THEN Failure(ErrArity)
    ELSE LET in == locateInput(fn)
         IN IF ~in.found \/ in.varName = <<>> THEN Failure(ErrNoInput)
            ELSE LET out == locateOutput(fn)
                 IN IF ~out.found THEN Failure(ErrNoOutput)
                    ELSE
    LET missingIn == missingInputFields(fn, in.cand, in.varName)
        missingOut == missingOutputFields(fn, out.cand, out.varName)
        valid == Len(missingIn) = 0 /\ Len(missingOut) = 0
    IN [res |-> [Valid |-> valid, MissingInputFields |-> missingIn,
                 MissingOutputFields |-> missingOut],
        err |-> NoError, inCand |-> in.cand, inVar |-> in.varName,
        outCand |-> out.cand, outVar |-> out.varName]

---------------------------------------------------------------------------
(* IsPossibleConverter on every signature of at most MaxParams parameters  *)
(* and MaxResults results over a pool of types, for functions and methods, *)
(* under both values of includeMethods.                                    *)

OrName == <<"O", "r">>
OrdName == <<"o", "R", "D">>
QName == <<"Q">>

OrStruct == NamedT(OrName, StructT(<<FieldA, FieldId, FieldB>>))
OrdStruct == NamedT(OrdName, StructT(<<<<"X">>, <<"Y">>>>))
QStruct == NamedT(QName, StructT(<<<<"Z">>>>))

ClassifyTypes ==
    { OrStruct, SliceT(OrStruct), MapT(StringT, OrStruct),
      PointerT(OrdStruct), SliceT(PointerT(OrdStruct)),
      QStruct, IntT }

TypeLists(T, max) == UNION { [1..k -> T] : k \in 0..max }

\* a declaration with one unnamed field per type
SignatureDecl(recv, paramTypes, resultTypes) ==
    FuncDecl(<<"F">>, recv, FieldList(UnnamedList(paramTypes)),
             IF resultTypes = <<>> THEN NilFieldList
             ELSE FieldList(UnnamedList(resultTypes)),
             <<>>)

InitClassify ==
    /\ pc = "call"
    /\ includeMethods \in BOOLEAN
    /\ \E recv \in BOOLEAN, hasObj \in BOOLEAN :
       \E ps \in TypeLists(ClassifyTypes, MaxParams),
          rs \in TypeLists(ClassifyTypes, MaxResults) :
          /\ ~hasObj => (Len(ps) = 1 /\ Len(rs) = 1)
          /\ arg = IF hasObj THEN SignatureDecl(recv, ps, rs)
                   ELSE [SignatureDecl(recv, ps, rs) EXCEPT !.obj = NilObj]
    /\ ret = NoValue
    /\ RunIdle

CallClassify ==
    /\ pc = "call"
    /\ ret' = [accepted |-> IsPossibleConverter(arg)]
    /\ pc' = "return"
    /\ UNCHANGED <<arg, includeMethods, runVars>>

NextClassify == CallClassify

SpecClassify == InitClassify /\ [][NextClassify]_vars

\* The claim's two conditions on a pair of candidates, stated on kinds and
\* names.
IsSubstringOf(sub, s) ==
    \E pre \in 0..Len(s), post \in 0..Len(s) :
        /\ pre + Len(sub) + post = Len(s)
        /\ \A k \in 1..Len(sub) : s[pre + k] = sub[k]

ClaimContainerCompatible(inKind, outKind) ==
    IF inKind \in {ContainerSlice, ContainerMap}
    THEN outKind = inKind
    ELSE outKind \in {ContainerNone, ContainerPointer}

ClaimNameAffinity(inName, outName) ==
    \/ IsSubstringOf(ToLower(inName), ToLower(outName))
    \/ IsSubstringOf(ToLower(outName), ToLower(inName))

ClaimPairQualifies(inCand, outCand) ==
    /\ ClaimContainerCompatible(inCand.containerType, outCand.containerType)
    /\ ClaimNameAffinity(inCand.name, outCand.name)

ClaimAccepts(fn) ==
    /\ ~fn.Recv \/ includeMethods
    /\ \E i \in DOMAIN fn.obj.Params, j \in DOMAIN fn.obj.Results :
        LET p == extractCandidateType(fn.obj.Params[i].type)
            r == extractCandidateType(fn.obj.Results[j].type)
        IN p.ok /\ r.ok /\ ClaimPairQualifies(p.cand, r.cand)

\* C1: IsPossibleConverter returns true exactly when the function has no
\* receiver or includeMethods is set, and some parameter type and some
\* result type are candidates whose kinds are compatible (Slice/Map input:
\* identical output kind; None/Pointer input: None/Pointer output) and one
\* of whose lower-cased names is a substring of the other.
C1_ClassifierAcceptsExactlyQualifyingPairs ==
    pc = "return" /\ "accepted" \in DOMAIN ret =>
        ret.accepted = ClaimAccepts(arg)

\* A plain-to-pointer pair with names "Or" / "oRD" was accepted, although a
\* non-candidate and an unrelated record precede it, and a Slice input with
\* a None output of the same record was rejected.
C1_Witness ==
    /\ pc = "return"
    /\ "accepted" \in DOMAIN ret
    /\ ret.accepted
    /\ ~arg.Recv
    /\ arg.obj.Params = TupleOf(UnnamedList(<<QStruct, OrStruct>>))
    /\ arg.obj.Results = TupleOf(UnnamedList(<<IntT, PointerT(OrdStruct)>>))
    /\ ~IsPossibleConverter(SignatureDecl(FALSE, <<SliceT(OrStruct)>>, <<OrStruct>>))
    /\ ~IsPossibleConverter(SignatureDecl(FALSE, <<>>, <<OrStruct>>))

---------------------------------------------------------------------------
(* ValidateConverter on declarations whose parameter and result lists come *)
(* from the groupings below and whose bodies are the sequences of at most  *)
(* MaxStmts nodes of a pool.                                               *)

VarA == <<"a">>
VarC == <<"c">>
VarM == <<"m">>
VarN == <<"n">>
VarQ == <<"q">>
VarR == <<"r">>
VarE == <<"e">>
VarF == <<"f">>
FieldX == <<"X">>
FieldY == <<"Y">>
FieldZ == <<"Z">>

ValidateParamLists ==
    { FieldList(<<>>),                                          \* ()
      FieldList(<<Field(<<VarN>>, IntT)>>),                     \* (n int)
      FieldList(<<Field(<<VarA>>, OrStruct)>>),                 \* (a Or)
      FieldList(<<Field(<<>>, OrStruct)>>),                     \* (Or)
      FieldList(<<Field(<<VarA>>, SliceT(OrStruct))>>),         \* (a []Or)
      FieldList(<<Field(<<VarQ>>, QStruct)>>),                  \* (q Q)
      FieldList(<<Field(<<VarN>>, IntT), Field(<<VarA>>, OrStruct)>>),
                                                                \* (n int, a Or)
      FieldList(<<Field(<<VarQ>>, QStruct), Field(<<VarA>>, OrStruct)>>),
                                                                \* (q Q, a Or)
      FieldList(<<Field(<<VarM, VarN>>, IntT), Field(<<VarA>>, OrStruct)>>),
                                                                \* (m, n int, a Or)
      FieldList(<<Field(<<VarM, VarN>>, IntT), Field(<<VarC>>, StringT),
                  Field(<<VarA>>, OrStruct)>>) }                \* (m, n int, c string, a Or)

ValidateResultLists ==
    { NilFieldList,                                             \* no result
      FieldList(<<Field(<<VarE>>, IntT)>>),                     \* (e int)
      FieldList(<<Field(<<>>, PointerT(OrdStruct))>>),          \* *oRD
      FieldList(<<Field(<<VarR>>, PointerT(OrdStruct))>>),      \* (r *oRD)
      FieldList(<<Field(<<>>, PointerT(OrdStruct)), Field(<<>>, IntT)>>),
                                                                \* (*oRD, int)
      FieldList(<<Field(<<VarR>>, SliceT(PointerT(OrdStruct)))>>),
                                                                \* (r []*oRD)
      FieldList(<<Field(<<VarE>>, QStruct), Field(<<VarR>>, PointerT(OrdStruct))>>),
                                                                \* (e Q, r *oRD)
      FieldList(<<Field(<<VarE, VarF>>, IntT), Field(<<VarR>>, PointerT(OrdStruct))>>) }
                                                                \* (e, f int, r *oRD)

StmtPool ==
    { ReadStmt(VarA, FieldA), ReadStmt(VarA, FieldB),
      CallStmt(VarA, GetterName(FieldA)),
      ReadStmt(VarQ, FieldZ),
      ReadStmt(VarC, FieldA),
      AssignStmt(VarR, FieldX), AssignStmt(VarR, FieldY),
      ReadStmt(VarR, FieldX),
      CallStmt(VarR, GetterName(FieldY)),
      KeyedLit(<<>>, OrdName, TRUE, <<FieldX>>),
      KeyedLit(<<>>, OrdName, FALSE, <<FieldX, FieldY>>),
      KeyedLit(VarR, OrdName, TRUE, <<FieldX, FieldY>>),
      KeyedLit(<<>>, QName, FALSE, <<FieldY>>),
      PositionalLit(<<>>, OrdName, TRUE) }

Bodies == UNION { [1..k -> StmtPool] : k \in 0..MaxStmts }

\* testdata/src/converters/c1/c1.go, with the fields its body mentions
SampleName == <<"S", "a", "m", "p", "l", "e">>
VarSample == <<"s", "a", "m", "p", "l", "e">>
VarResult == <<"r", "e", "s", "u", "l", "t">>
FieldID == <<"I", "D">>
FieldLabel == <<"L", "a", "b", "e", "l">>
FieldPrice == <<"P", "r", "i", "c", "e">>
FieldCurrency == <<"C", "u", "r", "r", "e", "n", "c", "y">>
SampleFields == <<FieldID, FieldLabel, FieldPrice, FieldCurrency>>

ConvertSampleToDB ==
    FuncDecl(<<"C", "o", "n", "v", "e", "r", "t", "S", "a", "m", "p", "l", "e", "T", "o", "D", "B">>,
             FALSE,
             FieldList(<<Field(<<VarSample>>, NamedT(SampleName, StructT(SampleFields)))>>),
             FieldList(<<Field(<<VarResult>>,
                               PointerT(NamedT(SampleName, StructT(SampleFields))))>>),
             << ReadStmt(VarSample, FieldLabel),
                ReadStmt(VarSample, FieldID),
                ReadStmt(VarResult, FieldID),
                KeyedLit(VarResult, SampleName, TRUE, <<FieldLabel, FieldCurrency>>),
                ReadStmt(VarSample, FieldCurrency),
                AssignStmt(VarResult, FieldPrice),
                ReadStmt(VarSample, FieldPrice) >>)

InitValidate ==
    /\ pc = "call"
    /\ includeMethods = FALSE
    /\ \E ps \in ValidateParamLists, rs \in ValidateResultLists, body \in Bodies,
          hasObj \in BOOLEAN :
          /\ ~hasObj => body = <<>>
          /\ arg \in {IF hasObj THEN FuncDecl(<<"F">>, FALSE, ps, rs, body)
                      ELSE [FuncDecl(<<"F">>, FALSE, ps, rs, body) EXCEPT !.obj = NilObj],
                      ConvertSampleToDB}
    /\ ret = NoValue
    /\ RunIdle

CallValidate ==
    /\ pc = "call"
    /\ ret' = ValidateConverter(arg)
    /\ pc' = "return"
    /\ UNCHANGED <<arg, includeMethods, runVars>>

NextValidate == CallValidate

SpecValidate == InitValidate /\ [][NextValidate]_vars

Returned == pc = "return" /\ "err" \in DOMAIN ret
Verdict == Returned /\ ret.err = NoError

\* the usage sets the validator computed for the input variable it located
FieldsRead == CollectUsedFields(arg.Body, ret.inVar)
MethodsCalled == CollectUsedMethods(arg.Body, ret.inVar)

InputFieldRequired(f) ==
    /\ Exported(f)
    /\ f \notin FieldsRead
    /\ GetterName(f) \notin MethodsCalled

\* C3: missingInputFields is exactly the exported fields F of the input
\* shape, in declaration order, with F not in fields-read and "Get"+F not in
\* methods-called, each qualified as inputVar.F.
C3_MissingInputFieldsExact ==
    Verdict =>
        LET required == SelectSeq(ret.inCand.structType, InputFieldRequired)
        IN /\ Len(ret.res.MissingInputFields) = Len(required)
           /\ \A i \in DOMAIN required :
                ret.res.MissingInputFields[i] = ret.inVar \o <<".">> \o required[i]

\* Field A of input a was only reached through a.GetA(): B alone is missing,
\* the unexported id is not.
C3_Witness ==
    /\ Verdict
    /\ ret.inVar = VarA
    /\ ret.inCand.structType = <<FieldA, FieldId, FieldB>>
    /\ CallStmt(VarA, GetterName(FieldA)) \in {arg.Body[i] : i \in DOMAIN arg.Body}
    /\ FieldA \notin FieldsRead
    /\ ret.res.MissingInputFields = <<<<"a", ".", "B">>>>

\* the fields-written set the validator computed for the output it located
FieldsWritten == CollectOutputFields(arg, ret.outVar, ret.outCand.name)

OutputFieldRequired(f) == Exported(f) /\ f \notin FieldsWritten

\* C4: in every verdict missingOutputFields is exactly the exported fields
\* of the output shape not in fields-written, with no getter excuse,
\* qualified with the output variable when it has a name and bare otherwise;
\* valid holds exactly when both missing lists are empty.
C4_MissingOutputFieldsAndValid ==
    Verdict =>
        LET required == SelectSeq(ret.outCand.structType, OutputFieldRequired)
        IN /\ Len(ret.res.MissingOutputFields) = Len(required)
           /\ \A i \in DOMAIN required :
                ret.res.MissingOutputFields[i] =
                    IF ret.outVar = <<>> THEN required[i]
                    ELSE ret.outVar \o <<".">> \o required[i]
           /\ ret.res.Valid = (ret.res.MissingInputFields = <<>>
                                /\ ret.res.MissingOutputFields = <<>>)

\* Input q fully read, r.X assigned, r.Y only reached through r.GetY():
\* valid=false, nothing missing on the input, r.Y missing on the output.
C4_Witness ==
    /\ Verdict
    /\ ret.outVar = VarR
    /\ arg.Body = <<ReadStmt(VarQ, FieldZ), AssignStmt(VarR, FieldX)>>
    /\ ret.res.Valid = FALSE
    /\ ret.res.MissingInputFields = <<>>
    /\ ret.res.MissingOutputFields = <<<<"r", ".", "Y">>>>
    /\ ValidateConverter([arg EXCEPT !.Body =
            <<CallStmt(VarR, GetterName(FieldY)), AssignStmt(VarR, FieldX)>>])
          .res.MissingOutputFields = <<<<"r", ".", "Y">>>>

\* What the claim counts as written.
ClaimWritten(f) ==
    IF ret.outVar # <<>>
    THEN \E i \in DOMAIN arg.Body : arg.Body[i] = AssignStmt(ret.outVar, f)
    ELSE \E i \in DOMAIN arg.Body :
            /\ arg.Body[i].op = "keyed"
            /\ arg.Body[i].type = ret.outCand.name
            /\ \E k \in DOMAIN arg.Body[i].keys : arg.Body[i].keys[k] = f

ClaimErrorCase(fn) ==
    \/ fn.obj.kind # "func"
    \/ Len(fn.obj.Params) = 0
    \/ Len(fn.obj.Results) = 0
    \/ CandidateIndexes(fn.obj.Params) = {}
    \/ fn.obj.Params[FirstCandidateIndex(fn.obj.Params)].name = <<>>
    \/ CandidateIndexes(fn.obj.Results) = {}

\* C7: ValidateConverter returns an error and no verdict exactly when the
\* signature cannot be obtained, there is no parameter or no result, no
\* parameter is a candidate, the located input candidate has no variable
\* name, or no result is a candidate; otherwise a verdict and no error.
C7_ErrorExactlyInListedCases ==
    Returned =>
        /\ (ret.err # NoError) = ClaimErrorCase(arg)
        /\ ret.err # NoError => ret.res = ZeroResult

\* C9 as claimed: the pair the validator diffs satisfies the classifier's
\* container-compatibility and name-affinity conditions whenever the
\* classifier accepts and the validator returns a verdict.
C9_ValidatedPairQualifies ==
    Verdict /\ IsPossibleConverter(arg) =>
        ClaimPairQualifies(ret.inCand, ret.outCand)

\* C9 amended: the pair diffed is a candidate parameter and a candidate
\* result of the signature, and it satisfies the classifier's conditions
\* when the signature has exactly one candidate parameter and exactly one
\* candidate result.
C9_ValidatedPairQualifiesWhenUnique ==
    Verdict /\ IsPossibleConverter(arg) =>
        /\ \E i \in CandidateIndexes(arg.obj.Params) :
              ret.inCand = extractCandidateType(arg.obj.Params[i].type).cand
        /\ \E j \in CandidateIndexes(arg.obj.Results) :
              ret.outCand = extractCandidateType(arg.obj.Results[j].type).cand
        /\ (Cardinality(CandidateIndexes(arg.obj.Params)) = 1
              /\ Cardinality(CandidateIndexes(arg.obj.Results)) = 1)
            => ClaimPairQualifies(ret.inCand, ret.outCand)

\* A converter with a single record parameter and a single record result
\* was accepted and validated on that pair.
C9_Witness ==
    /\ Verdict
    /\ IsPossibleConverter(arg)
    /\ arg.Params = FieldList(<<Field(<<VarN>>, IntT), Field(<<VarA>>, OrStruct)>>)
    /\ ret.inCand.name = OrName
    /\ ret.outCand.name = OrdName
    /\ ClaimPairQualifies(ret.inCand, ret.outCand)

---------------------------------------------------------------------------
(* Run: the pass over pass.Files.  The files and their declarations are    *)
(* the pass's input; the model draws each one when the loop reaches it.    *)

TestSuffix == <<"_", "t", "e", "s", "t", ".", "g", "o">>
VendorDir == <<"/", "v", "e", "n", "d", "o", "r", "/">>
Separator == "/"

\* filepath.ToSlash
ToSlash(path) == [i \in DOMAIN path |-> IF path[i] = Separator THEN "/" ELSE path[i]]

\* the test of line 33: the file is skipped
isFiltered(filename) ==
    HasSuffix(filename, TestSuffix) \/ Contains(ToSlash(filename), VendorDir)

PlainFile == <<"/", "p", "/", "a", ".", "g", "o">>
TestFile == <<"/", "p", "/", "a">> \o TestSuffix
VendorFile == <<"/", "p">> \o VendorDir \o <<"a", ".", "g", "o">>

Filenames == {PlainFile, TestFile, VendorFile}

DeclLen ==
    FuncDecl(<<"L", "e", "n">>, FALSE, FieldList(<<Field(<<VarN>>, IntT)>>),
             FieldList(<<Field(<<VarE>>, IntT)>>), <<>>)
DeclMethod ==
    FuncDecl(<<"T", "o", "O", "r", "d">>, TRUE, FieldList(<<Field(<<VarA>>, OrStruct)>>),
             FieldList(<<Field(<<>>, PointerT(OrdStruct))>>),
             <<ReadStmt(VarA, FieldA), ReadStmt(VarA, FieldB),
               KeyedLit(<<>>, OrdName, TRUE, <<FieldX>>)>>)
DeclBroken ==
    FuncDecl(<<"B", "r", "o", "k", "e", "n">>, FALSE,
             FieldList(<<Field(<<VarM, VarN>>, IntT), Field(<<VarA>>, OrStruct)>>),
             FieldList(<<Field(<<>>, PointerT(OrdStruct))>>), <<>>)
DeclCopy ==
    FuncDecl(<<"C", "o", "p", "y">>, FALSE, FieldList(<<Field(<<VarQ>>, QStruct)>>),
             FieldList(<<Field(<<VarR>>, QStruct)>>),
             <<ReadStmt(VarQ, FieldZ), AssignStmt(VarR, FieldZ)>>)
DeclConv ==
    FuncDecl(<<"C", "o", "n", "v">>, FALSE, FieldList(<<Field(<<VarA>>, OrStruct)>>),
             FieldList(<<Field(<<>>, PointerT(OrdStruct))>>),
             <<ReadStmt(VarA, FieldA), KeyedLit(<<>>, OrdName, TRUE, <<FieldX>>)>>)

RunDecls == {DeclLen, DeclMethod, DeclBroken, DeclCopy, DeclConv}

inspectFuncDecl_ReportsValid(fn) ==
    IF ~IsPossibleConverter(fn) THEN [outcome |-> "skip", v |-> Failure(NoError)]
    ELSE LET v == ValidateConverter(fn)
         IN IF v.err # NoError THEN [outcome |-> "error", v |-> v]
            ELSE [outcome |-> "report", v |-> v]

\* the callback of ast.Inspect on a *ast.FuncDecl: what it decides
inspectFuncDecl(fn) ==
    IF ~IsPossibleConverter(fn) THEN [outcome |-> "skip", v |-> Failure(NoError)]
    ELSE LET v == ValidateConverter(fn)
         IN IF v.err # NoError THEN [outcome |-> "error", v |-> v]
            ELSE IF v.res.Valid THEN [outcome |-> "valid", v |-> v]
            ELSE [outcome |-> "report", v |-> v]

\* analysis.Diagnostic: the position of fn.Name and the message
Diagnostic(pos, fn, v) ==
    [Pos |-> pos, Name |-> fn.Name,
     Message |-> [text |-> "converter function is leaking fields",
                  MissingInputFields |-> v.res.MissingInputFields,
                  MissingOutputFields |-> v.res.MissingOutputFields]]

filesWarnedAfter_Always(contains, n) == n + 1

\* lines 77-79
filesWarnedAfter(contains, n) == IF contains THEN n + 1 ELSE n

\* the summary line
Summary(total, warnings, warned) ==
    IF warnings > 0
    THEN [text |-> "Files total analyzed. Warnings caught in files",
          files |-> total, warnings |-> warnings, warned |-> warned]
    ELSE [text |-> "Files total analyzed. Warnings: 0",
          files |-> total, warnings |-> 0, warned |-> 0]

Init ==
    /\ pc = "range"
    /\ includeMethods = FALSE
    /\ numFiles \in 0..MaxFiles
    /\ arg = NoValue
    /\ ret = NoValue
    /\ fileIdx = 0
    /\ file = NoFile
    /\ declIdx = 0
    /\ fileContainsWarnings = FALSE
    /\ warningsTotal = 0
    /\ filesTotal = 0
    /\ filesWarned = 0
    /\ reports = <<>>
    /\ visited = <<>>
    /\ stdout = <<>>
    /\ result = NoValue

\* the head of the range loop: the next file is skipped or entered
NextFile ==
    /\ pc = "range"
    /\ fileIdx < numFiles
    /\ \E filename \in Filenames, n \in 0..MaxDecls :
        /\ fileIdx' = fileIdx + 1
        /\ IF isFiltered(filename)
           THEN /\ visited' = Append(visited,
                        [kind |-> "filtered", file |-> fileIdx + 1, decl |-> 0,
                         name |-> filename])
                /\ UNCHANGED <<pc, file, declIdx, filesTotal, fileContainsWarnings>>
           ELSE /\ filesTotal' = filesTotal + 1
                /\ fileContainsWarnings' = FALSE
                /\ file' = [name |-> filename, decls |-> n]
                /\ declIdx' = 0
                /\ visited' = Append(visited,
                        [kind |-> "file", file |-> fileIdx + 1, decl |-> n,
                         name |-> filename])
                /\ pc' = "inspect"
    /\ UNCHANGED <<arg, ret, includeMethods, numFiles, warningsTotal, filesWarned,
                   reports, stdout, result>>

\* ast.Inspect reaches the file's next function declaration
InspectDecl ==
    /\ pc = "inspect"
    /\ declIdx < file.decls
    /\ \E fn \in RunDecls :
        LET r == inspectFuncDecl(fn)
            pos == <<fileIdx, declIdx + 1>>
        IN /\ arg' = fn
           /\ ret' = r
           /\ declIdx' = declIdx + 1
           /\ visited' = Append(visited,
                    [kind |-> "decl", file |-> fileIdx, decl |-> declIdx + 1,
                     name |-> file.name])
           /\ stdout' = IF r.outcome = "error"
                        THEN Append(stdout, [text |-> "--> Validation error, ignoring ",
                                             name |-> fn.Name])
                        ELSE stdout
           /\ IF r.outcome = "report"
              THEN /\ reports' = Append(reports, Diagnostic(pos, fn, r.v))
                   /\ warningsTotal' = warningsTotal + 1
                   /\ fileContainsWarnings' = TRUE
              ELSE UNCHANGED <<reports, warningsTotal, fileContainsWarnings>>
    /\ UNCHANGED <<pc, includeMethods, numFiles, fileIdx, file, filesTotal,
                   filesWarned, result>>

\* ast.Inspect returned
EndFile ==
    /\ pc = "inspect"
    /\ declIdx = file.decls
    /\ filesWarned' = filesWarnedAfter(fileContainsWarnings, filesWarned)
    /\ pc' = "range"
    /\ UNCHANGED <<arg, ret, includeMethods, numFiles, fileIdx, file, declIdx,
                   fileContainsWarnings, warningsTotal, filesTotal, reports,
                   visited, stdout, result>>

\* after the loop: the summary and return nil, nil
Finish ==
    /\ pc = "range"
    /\ fileIdx = numFiles
    /\ stdout' = Append(stdout, Summary(filesTotal, warningsTotal, filesWarned))
    /\ result' = [value |-> "nil", err |-> "nil"]
    /\ pc' = "done"
    /\ UNCHANGED <<arg, ret, includeMethods, numFiles, fileIdx, file, declIdx,
                   fileContainsWarnings, warningsTotal, filesTotal, filesWarned,
                   reports, visited>>

Next == NextFile \/ InspectDecl \/ EndFile \/ Finish

\* Run is sequential and nothing in it blocks: a step that can be taken is taken
Spec == Init /\ [][Next]_vars /\ WF_vars(Next)

\* the number of declarations of file f, from the event that entered it
DeclsOfFile(f) ==
    LET k == CHOOSE j \in DOMAIN visited :
                visited[j].kind = "file" /\ visited[j].file = f
    IN visited[k].decl

\* the event closes its file: nothing of the file is left to visit
ClosesFile(e) ==
    \/ e.kind = "filtered"
    \/ e.kind = "file" /\ e.decl = 0
    \/ e.kind = "decl" /\ e.decl = DeclsOfFile(e.file)

IsTestOrVendor(filename) ==
    \/ \E pre \in 0..Len(filename) :
          filename = SubSeq(filename, 1, pre) \o TestSuffix
    \/ \E pre \in 0..Len(filename), post \in 0..Len(filename) :
          /\ pre + Len(VendorDir) + post = Len(filename)
          /\ SubSeq(filename, pre + 1, pre + Len(VendorDir)) = VendorDir

\* files are taken in order, a file is entered exactly when it is not a test
\* or vendor file, and the declarations of an entered file are visited one
\* after the other, first to last, before the next file is taken
VisitedInOrder ==
    \A k \in DOMAIN visited :
        LET e == visited[k]
        IN IF e.kind = "decl"
           THEN /\ k > 1
                /\ \/ /\ e.decl = 1
                      /\ visited[k - 1].kind = "file"
                      /\ visited[k - 1].file = e.file
                   \/ /\ e.decl > 1
                      /\ visited[k - 1].kind = "decl"
                      /\ visited[k - 1].file = e.file
                      /\ visited[k - 1].decl = e.decl - 1
                /\ e.decl <= DeclsOfFile(e.file)
           ELSE /\ e.file = 1 + Cardinality({j \in 1..(k - 1) : visited[j].kind # "decl"})
                /\ k > 1 => ClosesFile(visited[k - 1])
                /\ (e.kind = "filtered") = IsTestOrVendor(e.name)

ReportedAt(pos) == \E i \in DOMAIN reports : reports[i].Pos = pos

\* reports are in visiting order, at most one per visited declaration
ReportsInOrder ==
    /\ \A i \in DOMAIN reports :
          \E k \in DOMAIN visited :
              visited[k].kind = "decl" /\ reports[i].Pos = <<visited[k].file, visited[k].decl>>
    /\ \A i, j \in DOMAIN reports :
          i < j => \/ reports[i].Pos[1] < reports[j].Pos[1]
                   \/ /\ reports[i].Pos[1] = reports[j].Pos[1]
                      /\ reports[i].Pos[2] < reports[j].Pos[2]

\* the declaration in arg is the one the callback has just handled
JustInspected == pc = "inspect" /\ declIdx >= 1

C8_Safety ==
    /\ VisitedInOrder
    /\ ReportsInOrder
    /\ JustInspected =>
        /\ ReportedAt(<<fileIdx, declIdx>>)
              = (/\ IsPossibleConverter(arg)
                 /\ ValidateConverter(arg).err = NoError
                 /\ ~ValidateConverter(arg).res.Valid)
        /\ ReportedAt(<<fileIdx, declIdx>>) =>
              reports[Len(reports)] =
                  Diagnostic(<<fileIdx, declIdx>>, arg, ValidateConverter(arg))
    /\ pc = "done" =>
        /\ Cardinality({k \in DOMAIN visited : visited[k].kind # "decl"}) = numFiles
        /\ visited # <<>> => ClosesFile(visited[Len(visited)])
        /\ result = [value |-> "nil", err |-> "nil"]

\* C8: every declaration of every non-filtered file is processed in file
\* order and declaration order; a diagnostic is reported for a declaration
\* exactly when the classifier accepts it, the validator returns no error
\* and the verdict is not valid; a skip or a validation error reports
\* nothing and does not stop the traversal; the pass reaches its end and
\* returns no error.
C8_RunReportsExactlyLeakyConverters ==
    [](C8_Safety) /\ <>(pc = "done" /\ result = [value |-> "nil", err |-> "nil"])

\* A pass over one file whose first declaration failed validation (logged,
\* nothing reported) and whose second declaration was then reported, ended.
C8_Witness ==
    /\ pc = "done"
    /\ numFiles = 1
    /\ Len(visited) = 3
    /\ visited[3].kind = "decl" /\ visited[3].decl = 2
    /\ Len(stdout) = 2
    /\ stdout[1] = [text |-> "--> Validation error, ignoring ", name |-> DeclBroken.Name]
    /\ Len(reports) = 1
    /\ reports[1].Pos = <<1, 2>>
    /\ reports[1].Name = DeclConv.Name

CountersConsistent ==
    /\ filesWarned <= filesTotal
    /\ filesWarned <= warningsTotal
    /\ warningsTotal = Len(reports)
    /\ filesTotal = Cardinality({k \in DOMAIN visited : visited[k].kind = "file"})
    /\ pc \in {"range", "done"} =>
          filesWarned = Cardinality({reports[i].Pos[1] : i \in DOMAIN reports})

CountersStep ==
    /\ warningsTotal' >= warningsTotal
    /\ filesTotal' >= filesTotal
    /\ filesWarned' >= filesWarned
    /\ (/\ Len(visited') = Len(visited) + 1
        /\ IsTestOrVendor(visited'[Len(visited')].name)
        /\ visited'[Len(visited')].kind # "decl")
       => /\ UNCHANGED <<warningsTotal, filesTotal, filesWarned, reports>>
          /\ visited'[Len(visited')].kind = "filtered"

===========================================================================
